---- MODULE Spec2Model ----
(***************************************************************************)
(* Minesweeper board (class Minesweeper), knowledge sentences (class       *)
(* Sentence) and the inference engine (class MinesweeperAI) of             *)
(* src/minesweeper.py.                                                     *)
(*                                                                         *)
(* A cell is a pair <<i, j>>, a sentence a record [cells, count].  The     *)
(* engine's list `knowledge` is held as a bag of sentences: the code       *)
(* rebuilds the list with list(set(...)), which fixes no order, so the     *)
(* order in which the next call iterates the list is drawn when that call  *)
(* runs.                                                                   *)
(***************************************************************************)
EXTENDS Integers, Sequences, FiniteSets, Bags, TLC

\* Boards of at most MaxCells cells are explored.
MaxCells == 6
\* At most MaxCalls calls that change the engine (add_knowledge, mark_mine,
\* mark_safe) are made on one engine.
MaxCalls == 3

VARIABLES height, width, board, moves_made, mines, safes, knowledge, calls,
          last, found

vars == <<height, width, board, moves_made, mines, safes, knowledge, calls,
          last, found>>

\* Python's None, where a cell is expected: the empty tuple, which is no cell.
None == << >>

(***************************************************************************)
(* Minesweeper                                                             *)
(***************************************************************************)

\* All cells of an h x w grid.
Cells(h, w) == {<<i, j>> : i \in 0..(h - 1), j \in 0..(w - 1)}

is_mine(cell) == cell \in board

\* The cells within one row and column of cell, the cell itself excluded.
Around(cell) ==
    {<<cell[1] + di, cell[2] + dj>> : di \in -1..1, dj \in -1..1} \ {cell}

nearby_mines(cell) ==
    Cardinality({c \in Around(cell) :
        /\ 0 <= c[1] /\ c[1] < height
        /\ 0 <= c[2] /\ c[2] < width
        /\ c \in board})

(***************************************************************************)
(* Sentence                                                                *)
(***************************************************************************)

Sentence(cells, count) == [cells |-> cells, count |-> count]

\* known_mines taking "some mines" for "all mines".
known_mines_bug(s) == IF s.count # 0 THEN s.cells ELSE {}

known_mines(s) == IF s.count = Cardinality(s.cells) THEN s.cells ELSE {}

\* known_safes with the test of known_mines.
known_safes_bug(s) == IF s.count = Cardinality(s.cells) THEN s.cells ELSE {}

known_safes(s) == IF s.count = 0 THEN s.cells ELSE {}

\* mark_mine lowering the count whether or not the sentence holds the cell.
Sentence_mark_mine_bug(s, cell) ==
    [cells |-> s.cells \ {cell}, count |-> s.count - 1]

Sentence_mark_mine(s, cell) ==
    IF cell \in s.cells
    THEN [cells |-> s.cells \ {cell}, count |-> s.count - 1]
    ELSE s

\* mark_safe lowering the count as mark_mine does.
Sentence_mark_safe_bug(s, cell) ==
    IF cell \in s.cells
    THEN [cells |-> s.cells \ {cell}, count |-> s.count - 1]
    ELSE s

Sentence_mark_safe(s, cell) ==
    IF cell \in s.cells
    THEN [cells |-> s.cells \ {cell}, count |-> s.count]
    ELSE s

(***************************************************************************)
(* MinesweeperAI                                                           *)
(***************************************************************************)

\* get_neighbors without the test of the bounds of line 219.
get_neighbors_bug(cell) == Around(cell)

get_neighbors(cell) ==
    {c \in Around(cell) :
        /\ 0 <= c[1] /\ c[1] < height
        /\ 0 <= c[2] /\ c[2] < width}

Range(lst) == {lst[k] : k \in 1..Len(lst)}

\* Every arrangement of the sentences of the bag B in a list.
RECURSIVE Perms(_)
Perms(B) ==
    IF DOMAIN B = {}
    THEN {<<>>}
    ELSE UNION {{<<s>> \o t : t \in Perms(B (-) SetToBag({s}))} : s \in DOMAIN B}

\* One arrangement of the sentences of the bag B in a list.
RECURSIVE Front(_)
Front(B) ==
    IF DOMAIN B = {}
    THEN <<>>
    ELSE LET s == CHOOSE x \in DOMAIN B : TRUE
         IN  <<s>> \o Front(B (-) SetToBag({s}))

\* The sub-bags of B of at most k sentences.
RECURSIVE Picks(_, _)
Picks(B, k) ==
    IF k = 0
    THEN {EmptyBag}
    ELSE LET P == Picks(B, k - 1)
         IN  P \cup UNION {{X (+) SetToBag({s}) : s \in DOMAIN (B (-) X)} : X \in P}

\* The sentences of B that mark_safe(cell) leaves without cells.
Emptied(B, cell) ==
    [s \in {x \in DOMAIN B : x.cells \subseteq {cell}} |-> B[s]]

\* The orders in which a call add_knowledge(cell, ...) can find the list
\* `knowledge`, up to what the loop of lines 179-189 can tell apart.  The loop
\* removes the sentences without cells and passes over the sentence that
\* follows a removed one; every other sentence it visits, and the sets it
\* builds do not depend on where those stand.  So the orders taken are these:
\* the emptied sentences and at most as many others, arranged in every way,
\* at the end of the list, and the remaining sentences before them.
Orders(B, cell) ==
    LET E == Emptied(B, cell)
    IN  UNION {{Front((B (-) E) (-) X) \o tail : tail \in Perms(E (+) X)} :
                  X \in Picks(B (-) E, BagCardinality(E))}

\* list.remove(x): the list without its first element equal to x.
RECURSIVE ListRemove(_, _)
ListRemove(lst, x) ==
    IF lst = <<>> THEN <<>>
    ELSE IF Head(lst) = x THEN Tail(lst)
    ELSE <<Head(lst)>> \o ListRemove(Tail(lst), x)

\* The loop of lines 179-189 without the removal of line 181.
RECURSIVE ExtractLoop_bug(_, _, _, _)
ExtractLoop_bug(lst, i, ms, ss) ==
    IF i > Len(lst)
    THEN [knowledge |-> lst, mines |-> ms, safes |-> ss]
    ELSE IF lst[i].cells = {}
    THEN ExtractLoop_bug(lst, i + 1, ms, ss)
    ELSE ExtractLoop_bug(lst, i + 1, ms \cup known_mines(lst[i]),
                         ss \cup known_safes(lst[i]))

\* The loop of lines 179-189.  The list iterator keeps an index i into the
\* list; a removal shifts the rest of the list left under it.
RECURSIVE ExtractLoop(_, _, _, _)
ExtractLoop(lst, i, ms, ss) ==
    IF i > Len(lst)
    THEN [knowledge |-> lst, mines |-> ms, safes |-> ss]
    ELSE IF lst[i].cells = {}
    THEN ExtractLoop(ListRemove(lst, lst[i]), i + 1, ms, ss)
    ELSE ExtractLoop(lst, i + 1, ms \cup known_mines(lst[i]),
                     ss \cup known_safes(lst[i]))

\* new_knowledge with the counts subtracted the wrong way round.
SubsetPairs_bug(K) ==
    {Sentence(s2.cells \ s1.cells, s1.count - s2.count) :
        <<s1, s2>> \in {p \in K \X K :
                          p[1] # p[2] /\ p[1].cells \subseteq p[2].cells}}

\* The sentences of new_knowledge, lines 191-197, for the sentences K of the
\* list: the pairs are taken by value, so the list's order and its duplicates
\* do not matter.
SubsetPairs(K) ==
    {Sentence(s2.cells \ s1.cells, s2.count - s1.count) :
        <<s1, s2>> \in {p \in K \X K :
                          p[1] # p[2] /\ p[1].cells \subseteq p[2].cells}}

\* Lines 199-201: extend by new_knowledge and drop the duplicates.
Dedup(K, new_knowledge) == SetToBag(K \cup new_knowledge)

\* The lists add_knowledge works on, for the iteration order `order`.
Marked(order, cell) ==
    [k \in 1..Len(order) |-> Sentence_mark_safe(order[k], cell)]

Appended(order, cell, count) ==
    Append(Marked(order, cell), Sentence(get_neighbors(cell), count))

\* The latest call: its name and, for add_knowledge, its arguments, the set
\* safes it found and the list as it stood at the pairwise step of line 191;
\* for a move query, the value returned.
Last(op, cell, count, safes0, paired, ret) ==
    [op |-> op, cell |-> cell, count |-> count, safes0 |-> safes0,
     paired |-> paired, ret |-> ret]

\* What a call found and did, besides: the set mines it found, the sentence
\* it appended at line 177 (created), and the sentences that held its cell
\* when it began (touched).
NoSentence == Sentence({}, 0)

Found(mines0, created, touched) ==
    [mines0 |-> mines0, created |-> created, touched |-> touched]

NoFound == Found({}, NoSentence, {})

\* The sentences of the bag B that hold cell.
Holding(B, cell) == {s \in DOMAIN B : cell \in s.cells}

Init ==
    /\ height \in 1..MaxCells
    /\ width \in 1..MaxCells
    /\ height * width <= MaxCells
    /\ board \in SUBSET Cells(height, width)
    /\ moves_made = {}
    /\ mines = {}
    /\ safes = {}
    /\ knowledge = EmptyBag
    /\ calls = 0
    /\ last = Last("init", None, 0, {}, {}, None)
    /\ found = NoFound

\* Lines 170-189 without line 171, self.safes.add(cell).
Extracted_bug(cell, count) ==
    {LET r == ExtractLoop(Appended(order, cell, count), 1, mines, safes)
     IN  [knowledge |-> Range(r.knowledge), mines |-> r.mines,
          safes |-> r.safes] : order \in Orders(knowledge, cell)}

\* What lines 170-189 can leave, over the orders of the list: the sentences
\* of the list and the sets mines and safes.
Extracted(cell, count) ==
    {LET r == ExtractLoop(Appended(order, cell, count), 1,
                          mines, safes \cup {cell})
     IN  [knowledge |-> Range(r.knowledge), mines |-> r.mines,
          safes |-> r.safes] : order \in Orders(knowledge, cell)}

add_knowledge(cell, count) ==
    /\ calls < MaxCalls
    /\ \E r \in Extracted(cell, count) :
        /\ moves_made' = moves_made \cup {cell}
        /\ safes' = r.safes
        /\ mines' = r.mines
        /\ knowledge' = Dedup(r.knowledge, SubsetPairs(r.knowledge))
        /\ last' = Last("add_knowledge", cell, count, safes, r.knowledge, None)
        /\ found' = Found(mines, Sentence(get_neighbors(cell), count),
                          Holding(knowledge, cell))
    /\ calls' = calls + 1
    /\ UNCHANGED <<height, width, board>>

\* The game: a revealed cell is no mine and its count is the board's.
Observe ==
    \E cell \in Cells(height, width) :
        /\ ~is_mine(cell)
        /\ add_knowledge(cell, nearby_mines(cell))

\* make_safe_move without the test on moves_made.
safe_moves_bug == safes

\* The cells the loop of make_safe_move can return.
safe_moves == {move \in safes : move \notin moves_made}

make_safe_move ==
    /\ \E move \in safe_moves \cup {None} :
        /\ move = None => safe_moves = {}
        /\ last' = Last("make_safe_move", None, 0, {}, {}, move)
        /\ found' = NoFound
    /\ UNCHANGED <<height, width, board, moves_made, mines, safes, knowledge, calls>>

possible_moves == Cells(height, width)

\* valid_moves without the test on moves_made.
valid_moves_repeat == {move \in possible_moves : move \notin mines}

\* valid_moves without the test on mines.
valid_moves_bug == {move \in possible_moves : move \notin moves_made}

valid_moves ==
    {move \in possible_moves : move \notin moves_made /\ move \notin mines}

make_random_move ==
    /\ \E move \in valid_moves \cup {None} :
        /\ move = None => valid_moves = {}
        /\ last' = Last("make_random_move", None, 0, {}, {}, move)
        /\ found' = NoFound
    /\ UNCHANGED <<height, width, board, moves_made, mines, safes, knowledge, calls>>

Next == Observe \/ make_safe_move \/ make_random_move

Spec == Init /\ [][Next]_vars

(***************************************************************************)
(* The engine alone, any caller: every public method, on cells of the      *)
(* grid, add_knowledge with any count a cell of the grid can have.         *)
(***************************************************************************)

\* The bag of the sentences of a list.
RECURSIVE ListBag(_)
ListBag(lst) ==
    IF lst = <<>>
    THEN EmptyBag
    ELSE SetToBag({Head(lst)}) (+) ListBag(Tail(lst))

\* The list `knowledge` once MinesweeperAI.mark_mine(cell) has gone through
\* it (lines 157-158), and once mark_safe(cell) has (lines 166-167).
MarkedMine(cell) ==
    LET lst == Front(knowledge)
    IN  ListBag([k \in 1..Len(lst) |-> Sentence_mark_mine(lst[k], cell)])

MarkedSafe(cell) ==
    LET lst == Front(knowledge)
    IN  ListBag([k \in 1..Len(lst) |-> Sentence_mark_safe(lst[k], cell)])

mark_mine(cell) ==
    /\ calls < MaxCalls
    /\ mines' = mines \cup {cell}
    /\ knowledge' = MarkedMine(cell)
    /\ last' = Last("mark_mine", cell, 0, safes, {}, None)
    /\ found' = Found(mines, NoSentence, Holding(knowledge, cell))
    /\ calls' = calls + 1
    /\ UNCHANGED <<height, width, board, moves_made, safes>>

mark_safe(cell) ==
    /\ calls < MaxCalls
    /\ safes' = safes \cup {cell}
    /\ knowledge' = MarkedSafe(cell)
    /\ last' = Last("mark_safe", cell, 0, safes, {}, None)
    /\ found' = Found(mines, NoSentence, Holding(knowledge, cell))
    /\ calls' = calls + 1
    /\ UNCHANGED <<height, width, board, moves_made, mines>>

InitAPI ==
    /\ Init
    /\ board = {}

AnyKnowledge ==
    \E cell \in Cells(height, width) :
        \E count \in 0..Cardinality(get_neighbors(cell)) :
            add_knowledge(cell, count)

MarkMine == \E cell \in Cells(height, width) : mark_mine(cell)

MarkSafe == \E cell \in Cells(height, width) : mark_safe(cell)

NextAPI ==
    AnyKnowledge \/ MarkMine \/ MarkSafe \/ make_safe_move \/ make_random_move

SpecAPI == InitAPI /\ [][NextAPI]_vars

(***************************************************************************)
(* The observations of a game, with a caller that also hands add_knowledge *)
(* cells off the grid: the cells one step outside it, with the count the   *)
(* board gives.  The move queries change nothing but last, so they are     *)
(* left out here.                                                          *)
(***************************************************************************)

Ring == {<<c[1] - 1, c[2] - 1>> : c \in Cells(height + 2, width + 2)}
            \ Cells(height, width)

OutOfBounds ==
    \E cell \in Ring : add_knowledge(cell, nearby_mines(cell))

NextOut == Observe \/ OutOfBounds

SpecOut == Init /\ [][NextOut]_vars

(***************************************************************************)
(* A game played to its end by a driver: it asks make_safe_move, and       *)
(* make_random_move if that gave None; it stops when the move is None or   *)
(* a mine of the board, and otherwise hands the move and the board's count *)
(* to add_knowledge.  last holds the driver's position: the call it made   *)
(* last and what it returned.  The boards have at most MaxCalls cells, so  *)
(* the bound on the calls never cuts a game short.                         *)
(***************************************************************************)

InitGame ==
    /\ Init
    /\ height * width <= MaxCalls

Asked == last.op \in {"make_safe_move", "make_random_move"}

AskSafe ==
    /\ ~Asked
    /\ make_safe_move

AskRandom ==
    /\ last.op = "make_safe_move"
    /\ last.ret = None
    /\ make_random_move

Tell ==
    /\ Asked
    /\ last.ret # None
    /\ ~is_mine(last.ret)
    /\ add_knowledge(last.ret, nearby_mines(last.ret))

\* The driver has stopped: no move is left, or the move is a mine.
GameOver ==
    /\ Asked
    /\ \/ last.op = "make_random_move" /\ last.ret = None
       \/ last.ret # None /\ is_mine(last.ret)

NextGame == AskSafe \/ AskRandom \/ Tell

SpecGame == InitGame /\ [][NextGame]_vars

(***************************************************************************)
(* Properties                                                              *)
(***************************************************************************)

Sentences == DOMAIN knowledge

\* C1: driven by observations of non-mine cells with the board's counts,
\* every cell of mines is a mine of the board and no cell of safes is one.
C1_Soundness == mines \subseteq board /\ safes \cap board = {}

C1_Witness == mines # {} /\ safes \ moves_made # {} /\ calls >= 2

\* C2: safes and mines are disjoint.
C2_Disjoint == safes \cap mines = {}

C2_Witness == mines # {} /\ safes # {} /\ last.op = "add_knowledge"

\* C3: when add_knowledge has returned, no cell of safes or mines is among
\* the cells of a sentence of knowledge.
C3_Purged == \A s \in Sentences : s.cells \cap (safes \cup mines) = {}

\* C4: every sentence of knowledge has 0 <= count <= number of its cells.
C4_CountInRange ==
    \A s \in Sentences : 0 <= s.count /\ s.count <= Cardinality(s.cells)

C4_Witness ==
    /\ calls >= 2
    /\ \E s \in Sentences : 0 < s.count /\ s.count < Cardinality(s.cells)
    /\ \E s \in Sentences : s \notin last.paired

\* C5: make_random_move returns no cell of moves_made or mines; what it
\* returns is a cell of the grid, or None, and None exactly when every cell
\* of the grid is in moves_made or mines.
C5_RandomMove ==
    last.op = "make_random_move" =>
        /\ last.ret \notin moves_made \cup mines
        /\ last.ret # None => last.ret \in Cells(height, width)
        /\ last.ret = None <=>
               Cells(height, width) \subseteq moves_made \cup mines

C5_Witness ==
    /\ last.op = "make_random_move"
    /\ last.ret # None
    /\ safes \ moves_made = {}
    /\ mines # {}

\* C6: make_safe_move returns a cell of safes not in moves_made whenever
\* there is one, and None exactly when safes is a subset of moves_made.
C6_SafeMove ==
    last.op = "make_safe_move" =>
        /\ safes \ moves_made # {} => last.ret \in safes \ moves_made
        /\ last.ret = None <=> safes \subseteq moves_made

C6_Witness ==
    /\ last.op = "make_safe_move"
    /\ last.ret # None
    /\ moves_made # {}

\* C7: add_knowledge(cell, 0) leaves every neighbour of cell in safes.
C7_ZeroCount ==
    (last.op = "add_knowledge" /\ last.count = 0) =>
        get_neighbors(last.cell) \subseteq safes

\* C8: add_knowledge(cell, count) with count the number of neighbours of
\* cell that were not in safes leaves every one of those neighbours in mines.
C8_AllMines ==
    (/\ last.op = "add_knowledge"
     /\ last.count = Cardinality(get_neighbors(last.cell) \ last.safes0)) =>
        get_neighbors(last.cell) \ last.safes0 \subseteq mines

\* C9: two distinct sentences A, B at the pairwise step with A.cells a
\* subset of B.cells and equal counts leave the sentence (B.cells - A.cells,
\* 0) in knowledge and every cell of B.cells - A.cells in safes.
C9_SubsetReduction ==
    last.op = "add_knowledge" =>
        \A A \in last.paired, B \in last.paired :
            (A # B /\ A.cells \subseteq B.cells /\ A.count = B.count) =>
                /\ Sentence(B.cells \ A.cells, 0) \in Sentences
                /\ B.cells \ A.cells \subseteq safes

\* C10: running the extraction loop and the pairwise step again on the state
\* add_knowledge left adds no cell to safes or mines and no sentence to
\* knowledge.
C10_Fixpoint ==
    last.op = "add_knowledge" =>
        \A order \in Orders(knowledge, None) :
            LET r == ExtractLoop(order, 1, mines, safes)
            IN  /\ r.safes = safes
                /\ r.mines = mines
                /\ Range(r.knowledge) \cup SubsetPairs(Range(r.knowledge))
                       \subseteq Sentences

\* C12: the sentence add_knowledge(cell, count) creates holds exactly the
\* neighbours of cell that were in neither safes nor mines, and its count is
\* count less the number of neighbours of cell that were in mines.
C12_MinimalSentence ==
    last.op = "add_knowledge" =>
        found.created =
            Sentence(get_neighbors(last.cell) \ (last.safes0 \cup found.mines0),
                     last.count
                       - Cardinality(get_neighbors(last.cell) \cap found.mines0))

\* C13: in a game of observations with the board's counts, no sentence of
\* knowledge is without cells when add_knowledge has returned.
C13_NoVacuous == \A s \in Sentences : s.cells # {}

\* The latest call emptied a sentence, removed it and passed over another.
C13_Witness ==
    /\ last.op = "add_knowledge"
    /\ \E s \in found.touched : s.cells = {last.cell}
    /\ Cardinality(last.paired) >= 2

\* C14: in a game of observations with the board's counts, every sentence,
\* at the pairwise step and on return, counts the board's mines among its
\* cells.
C14_TrueSentences ==
    \A s \in Sentences \cup last.paired :
        s.count = Cardinality(s.cells \cap board)

\* A sentence shrunk by mark_safe and a derived one, both with mines.
C14_Witness ==
    /\ last.op = "add_knowledge"
    /\ \E s \in found.touched :
           Sentence_mark_safe(s, last.cell) \in Sentences /\ s.count > 0
    /\ \E s \in Sentences \ last.paired : s.count > 0

\* C11: mark_mine(cell) called again after mark_mine(cell) leaves mines,
\* safes, moves_made and every sentence as the first call left them; likewise
\* mark_safe(cell).
C11_Idempotent ==
    /\ last.op = "mark_mine" =>
           /\ mines \cup {last.cell} = mines
           /\ MarkedMine(last.cell) = knowledge
    /\ last.op = "mark_safe" =>
           /\ safes \cup {last.cell} = safes
           /\ MarkedSafe(last.cell) = knowledge

\* mark_mine has taken its cell out of a sentence that is still there.
C11_Witness ==
    /\ last.op = "mark_mine"
    /\ \E s \in found.touched : Sentence_mark_mine(s, last.cell) \in Sentences
    /\ last.cell \notin found.mines0

\* C15: over any calls of add_knowledge, mark_mine, mark_safe,
\* make_safe_move and make_random_move, the sets moves_made, safes and mines
\* only grow, and moves_made is a subset of safes.
C15_Monotonic ==
    /\ [][/\ moves_made \subseteq moves_made'
          /\ safes \subseteq safes'
          /\ mines \subseteq mines']_vars
    /\ [](moves_made \subseteq safes)

C15_Witness ==
    /\ calls >= 2
    /\ last.op = "add_knowledge"
    /\ moves_made # {}
    /\ mines \ found.mines0 # {}
    /\ safes \ (last.safes0 \cup {last.cell}) # {}

\* C16: with every call made on a cell of the grid, every cell of moves_made,
\* safes, mines and of the sentences of knowledge is a cell of the grid.
C16_InBounds ==
    (moves_made \cup safes \cup mines \cup UNION {s.cells : s \in Sentences})
        \subseteq Cells(height, width)

C16_Witness ==
    /\ last.op = "add_knowledge"
    /\ found.created.cells # {}
    /\ found.created \in Sentences
    /\ \E s \in Sentences \ last.paired : s.cells # {}

\* C17: add_knowledge on a cell off the grid leaves moves_made, safes and
\* mines as they were, and records the cell in none of them nor in a
\* sentence.
C17_Rejected ==
    (last.op = "add_knowledge" /\ last.cell \notin Cells(height, width)) =>
        /\ last.cell \notin moves_made \cup safes \cup mines
        /\ \A s \in Sentences : last.cell \notin s.cells
        /\ safes = last.safes0
        /\ mines = found.mines0
        /\ found.created \notin Sentences \ last.paired


\* C18: in a game played by the driver, every observation is of a cell that
\* was not in moves_made and makes moves_made strictly larger, so there are
\* as many observations as cells in moves_made and never more than
\* height * width; when the driver has stopped, nothing more happens.
C18_Progress ==
    /\ [][calls' # calls =>
             /\ last'.op = "add_knowledge"
             /\ last'.cell \notin moves_made
             /\ moves_made \subseteq moves_made'
             /\ moves_made' # moves_made]_vars
    /\ [](/\ calls = Cardinality(moves_made)
          /\ calls <= height * width)
    /\ [][~GameOver]_vars

\* A board of three cells or more was observed to its last cell that is not
\* a mine, a cell without a mine around it known safe among them, and the
\* driver has stopped for want of a move.
C18_Witness ==
    /\ GameOver
    /\ last.ret = None
    /\ height * width >= 3
    /\ calls >= 2
    /\ calls = height * width - Cardinality(board)
    /\ safes \ {c \in Cells(height, width) : nearby_mines(c) # 0} # {}

====
